---- MODULE Spec2Model ----
(***************************************************************************)
(* Model of src/data/profit_10_days_dataset.py: the null-offer filler, the *)
(* dataset builder, the feature splitter, the composite estimator          *)
(* (ProfitsPredictor with its shared BasicEncoderProfits) and the offer    *)
(* chooser.                                                                *)
(*                                                                         *)
(* A dataframe is a record [cols, rows]: cols is the sequence of column    *)
(* names, rows a sequence of functions from the column names to values.    *)
(* A pandas Series (an offer of the portfolio) is a record [idx, val]: idx *)
(* the sequence of labels, val the function from labels to values.         *)
(***************************************************************************)
EXTENDS Integers, Sequences, FiniteSets, TLC

VARIABLES
    pc,         \* which operation has run: "start" or the operation's name
    data,       \* the dataframe handed to fill_null_offer / read from the pickle
    data0,      \* the dataframe as it was before the call
    ret,        \* what the operation returned
    split,      \* the table given to split_view_profit and what it returned
    predictor,  \* the ProfitsPredictor object
    nfit,       \* how many times fit was called on it
    call        \* the last call on the predictor or the chooser, with its result

vars == <<pc, data, data0, ret, split, predictor, nfit, call>>

---------------------------------------------------------------------------
(* Bounds of the model *)

MaxRows == 2

MaxTrainRows == 2

MaxPredictRows == 1

MaxFits == 2

MaxOffers == 2

---------------------------------------------------------------------------
(* Module constants, lines 18-29 *)

VIEWCOL_LABEL == "viewcol"

Z_COLS ==
    <<"difficulty", "duration", "reward_t", "channel_web",
      "channel_mobile", "channel_email", "channel_social">>

PROFIT_COLS == Z_COLS \o <<"offer_id", "offer_type">>

\* '{}_{}'.format(col, VIEWCOL_LABEL)
ViewName(col) == col \o "_" \o VIEWCOL_LABEL

Z_VIEW_COLS == [i \in DOMAIN Z_COLS |-> ViewName(Z_COLS[i])]

VIEW_COLS == Z_VIEW_COLS \o <<ViewName("offer_id"), ViewName("offer_type")>>

---------------------------------------------------------------------------
(* Sequences and Python's order on the strings the program handles *)

ToSet(s) == {s[i] : i \in DOMAIN s}

IndexOf(s, x) == CHOOSE i \in DOMAIN s : s[i] = x

\* Every string of the model, in the order Python's str comparison gives
\* (code points: digits < lower-case letters, '_' (95) < 'a' (97), a proper
\* prefix before its extensions).
PyStrOrder ==
    <<"2906", "3f20", "ae26",
      "bogo",
      "channel_email", "channel_email_viewcol",
      "channel_mobile", "channel_mobile_viewcol",
      "channel_social", "channel_social_viewcol",
      "channel_web", "channel_web_viewcol",
      "difficulty", "difficulty_viewcol",
      "discount",
      "duration", "duration_viewcol",
      "id",
      "informational",
      "no_offer",
      "offer_id", "offer_id_viewcol",
      "offer_type", "offer_type_viewcol",
      "reward", "reward_t", "reward_t_viewcol">>

\* sorted(names), for names without duplicates
Sorted(names) == SelectSeq(PyStrOrder, LAMBDA s : s \in ToSet(names))

---------------------------------------------------------------------------
(* The portfolio: offers as the preprocessing stage hands them over.  The  *)
(* column order is the one the null offer of choose_offer is written in.   *)

PORTFOLIO_COLS ==
    <<"difficulty", "duration", "id", "offer_type", "reward",
      "channel_web", "channel_email", "channel_mobile", "channel_social">>

Offer(dif, dur, id, type, rew, web, email, mobile, social) ==
    [idx |-> PORTFOLIO_COLS,
     val |-> [c \in ToSet(PORTFOLIO_COLS) |->
                CASE c = "difficulty" -> dif
                  [] c = "duration" -> dur
                  [] c = "id" -> id
                  [] c = "offer_type" -> type
                  [] c = "reward" -> rew
                  [] c = "channel_web" -> web
                  [] c = "channel_email" -> email
                  [] c = "channel_mobile" -> mobile
                  [] c = "channel_social" -> social]]

\* Three offers of the catalog, one of each type.
RealOffers ==
    <<Offer(10, 7, "ae26", "bogo", 10, 0, 1, 1, 1),
      Offer(10, 7, "2906", "discount", 2, 1, 1, 1, 0),
      Offer(0, 4, "3f20", "informational", 0, 1, 1, 1, 0)>>

---------------------------------------------------------------------------
(* Dataframe operations (pandas) *)

\* df.drop(names, axis=1) where every name is a column
Drop(df, names) ==
    LET keep == SelectSeq(df.cols, LAMBDA c : c \notin ToSet(names))
    IN  [cols |-> keep,
         rows |-> [i \in DOMAIN df.rows |->
                     [c \in ToSet(keep) |-> df.rows[i][c]]]]

---------------------------------------------------------------------------
(* The static dataset read from the pickle: one row per offer received.    *)

RAW_COLS ==
    <<"person", "time", "age", "became_member_on">> \o PROFIT_COLS
    \o <<"viewed", "actual_reward", "spent_10_days">>

RawRow(person, time, o, viewed, spent) ==
    [c \in ToSet(RAW_COLS) |->
        CASE c = "person" -> person
          [] c = "time" -> time
          [] c = "age" -> 30 + person
          [] c = "became_member_on" -> 2017
          [] c = "offer_id" -> o.val["id"]
          [] c = "reward_t" -> o.val["reward"]
          [] c = "viewed" -> viewed
          [] c = "actual_reward" -> 0
          [] c = "spent_10_days" -> spent
          [] OTHER -> o.val[c]]

Times == {0, 408}

RawRowsAt(times) ==
    {RawRow(1, t, RealOffers[k], v, 5) :
        t \in times, k \in DOMAIN RealOffers, v \in {0, 1}}

RawTablesAt(times, maxrows) ==
    {[cols |-> RAW_COLS, rows |-> rs] :
        rs \in UNION {[1..n -> RawRowsAt(times)] : n \in 1..maxrows}}

RawTables == RawTablesAt(Times, MaxRows)

---------------------------------------------------------------------------
(* fill_null_offer, lines 120-146 *)

\* data[view_cols] = data[profit_cols].copy(): assigned by position; the
\* columns that are new are appended in the order of view_cols
CopyCols(df, view_cols, profit_cols) ==
    LET newcols == df.cols \o SelectSeq(view_cols,
                                 LAMBDA c : c \notin ToSet(df.cols))
    IN  [cols |-> newcols,
         rows |-> [i \in DOMAIN df.rows |->
                     [c \in ToSet(newcols) |->
                        IF c \in ToSet(view_cols)
                        THEN df.rows[i][profit_cols[IndexOf(view_cols, c)]]
                        ELSE df.rows[i][c]]]]

\* NullNotViewed without line 143 (offer_type is left as it was)
NullNotViewedSkipType(df, z_cols) ==
    [cols |-> df.cols,
     rows |-> [i \in DOMAIN df.rows |->
                 [c \in DOMAIN df.rows[i] |->
                    IF df.rows[i]["viewed"] = 0
                    THEN CASE c = "offer_id" -> "no_offer"
                           [] c \in ToSet(z_cols) -> 0
                           [] OTHER -> df.rows[i][c]
                    ELSE df.rows[i][c]]]]

\* NullNotViewed without the mask data['viewed'] == 0
NullAllRows(df, z_cols) ==
    [cols |-> df.cols,
     rows |-> [i \in DOMAIN df.rows |->
                 [c \in DOMAIN df.rows[i] |->
                    CASE c = "offer_id" -> "no_offer"
                      [] c = "offer_type" -> "no_offer"
                      [] c \in ToSet(z_cols) -> 0
                      [] OTHER -> df.rows[i][c]]]]

\* data.loc[data['viewed'] == 0, 'offer_id'] = 'no_offer'
\* data.loc[data['viewed'] == 0, 'offer_type'] = 'no_offer'
\* data.loc[data['viewed'] == 0, data.columns.isin(z_cols)] = 0
NullNotViewed(df, z_cols) ==
    [cols |-> df.cols,
     rows |-> [i \in DOMAIN df.rows |->
                 [c \in DOMAIN df.rows[i] |->
                    IF df.rows[i]["viewed"] = 0
                    THEN CASE c = "offer_id" -> "no_offer"
                           [] c = "offer_type" -> "no_offer"
                           [] c \in ToSet(z_cols) -> 0
                           [] OTHER -> df.rows[i][c]
                    ELSE df.rows[i][c]]]]

fill_null_offer(df) ==
    LET viewcol_label == "viewcol"
        z_cols == <<"difficulty", "duration", "reward_t", "channel_web",
                    "channel_mobile", "channel_email", "channel_social">>
        profit_cols == z_cols \o <<"offer_id", "offer_type">>
        z_view_cols == [i \in DOMAIN z_cols |->
                          z_cols[i] \o "_" \o viewcol_label]
        view_cols == z_view_cols \o <<"offer_id" \o "_" \o viewcol_label,
                                      "offer_type" \o "_" \o viewcol_label>>
    IN  [data |-> NullNotViewed(CopyCols(df, view_cols, profit_cols), z_cols),
         view_cols |-> view_cols,
         profit_cols |-> profit_cols]

FillNullOffer ==
    /\ pc = "start"
    /\ LET r == fill_null_offer(data)
       IN  /\ data' = r.data          \* the dataframe is changed in place
           /\ ret' = r
    /\ pc' = "fill_null_offer"
    /\ UNCHANGED <<data0, split, predictor, nfit, call>>

---------------------------------------------------------------------------

(* get_profit_10_days_data, lines 162-217 *)

\* pp.FUTURE_INFO: the columns known only after the offer was sent.
FUTURE_INFO == <<"viewed", "actual_reward">>

\* pp.drop_time_dependent: drops the absolute-time features.
drop_time_dependent(df) == Drop(df, <<"time">>)

train_times == {0, 168}

test_times == {408}

\* data['profit_10_days'] = data.spent_10_days - data.actual_reward
WithProfit(df) ==
    [cols |-> df.cols \o <<"profit_10_days">>,
     rows |-> [i \in DOMAIN df.rows |->
                 [c \in ToSet(df.cols) \cup {"profit_10_days"} |->
                    IF c = "profit_10_days"
                    THEN df.rows[i]["spent_10_days"] - df.rows[i]["actual_reward"]
                    ELSE df.rows[i][c]]]]

\* X[X.time.isin(times)], the mask computed on X
RowsAt(df, X, times) ==
    LET keep == {i \in DOMAIN X.rows : X.rows[i]["time"] \in times}
        pos == SelectSeq([i \in DOMAIN X.rows |-> i], LAMBDA i : i \in keep)
    IN  [cols |-> df.cols, rows |-> [k \in DOMAIN pos |-> df.rows[pos[k]]]]

\* data[target]
Select(df, target) ==
    [cols |-> target,
     rows |-> [i \in DOMAIN df.rows |-> [c \in ToSet(target) |-> df.rows[i][c]]]]

get_profit_10_days_data(pickle, drop_time, anon_person, drop_offer_id, fill_null, target) ==
    LET filled == IF fill_null THEN fill_null_offer(pickle)
                  ELSE [data |-> pickle, view_cols |-> <<>>, profit_cols |-> <<>>]
        d1 == filled.data
        d2 == IF anon_person THEN Drop(d1, <<"person">>) ELSE d1
        d3 == IF drop_offer_id THEN Drop(d2, <<"offer_id">>) ELSE d2
        custom_features == IF drop_offer_id THEN <<>> ELSE <<"offer_id">>
        d4 == Drop(WithProfit(d3), <<"became_member_on", "spent_10_days">>)
        X == Drop(d4, FUTURE_INFO \o <<"profit_10_days">>)
        y == Select(d4, target)
        X_train0 == RowsAt(X, X, train_times)
        X_test0 == RowsAt(X, X, test_times)
    IN  [X_train |-> IF drop_time THEN drop_time_dependent(X_train0) ELSE X_train0,
         X_test |-> IF drop_time THEN drop_time_dependent(X_test0) ELSE X_test0,
         y_train |-> RowsAt(y, X, train_times),
         y_test |-> RowsAt(y, X, test_times),
         custom_features |-> custom_features,
         has_cols |-> fill_null,      \* view_cols, profit_cols are None otherwise
         view_cols |-> filled.view_cols,
         profit_cols |-> filled.profit_cols,
         args |-> [drop_time |-> drop_time, anon_person |-> anon_person,
                   drop_offer_id |-> drop_offer_id, fill_null |-> fill_null]]

\* target: the default, and the pair of targets ProfitsPredictor.fit takes
Targets == {<<"profit_10_days">>, <<"viewed", "profit_10_days">>}

GetProfit10DaysData ==
    /\ pc = "start"
    /\ \E drop_time, anon_person, drop_offer_id, fill_null \in BOOLEAN,
          target \in Targets :
          ret' = get_profit_10_days_data(data, drop_time, anon_person,
                                         drop_offer_id, fill_null, target)
    /\ pc' = "get_profit_10_days_data"
    /\ UNCHANGED <<data, data0, split, predictor, nfit, call>>   \* works on its own copy, read from the file

-------------------------------------------------------------------------------------------------------------------------------------------
(* split_view_profit, lines 149-159 *)

\* df.rename(columns={v: p for v, p in zip(view_cols, profit_cols)})
Rename(df, view_cols, profit_cols) ==
    LET n == IF Len(view_cols) < Len(profit_cols)
             THEN Len(view_cols) ELSE Len(profit_cols)
        zipped == {view_cols[k] : k \in 1..n}
        \* a dict keeps the last value given for a key
        to(c) == IF c \in zipped
                 THEN profit_cols[CHOOSE k \in 1..n :
                         /\ view_cols[k] = c
                         /\ \A j \in 1..n : view_cols[j] = c => j <= k]
                 ELSE c
        newcols == [k \in DOMAIN df.cols |-> to(df.cols[k])]
    IN  [cols |-> newcols,
         rows |-> [i \in DOMAIN df.rows |->
                     [c \in ToSet(newcols) |->
                        df.rows[i][df.cols[IndexOf(newcols, c)]]]]]

KeyError == [ok |-> FALSE, err |-> "KeyError"]

\* split_view_profit without line 156 (the view block keeps its names)
split_no_rename(X, view_cols, profit_cols) ==
    IF ~ (ToSet(profit_cols) \subseteq ToSet(X.cols)
          /\ ToSet(view_cols) \subseteq ToSet(X.cols))
    THEN KeyError
    ELSE [ok |-> TRUE,
          X_view |-> Drop(X, profit_cols),
          X_profit |-> Drop(X, view_cols)]

\* X.drop(names, axis=1) raises KeyError when a name is not a column
split_view_profit(X, view_cols, profit_cols) ==
    IF ~ (ToSet(profit_cols) \subseteq ToSet(X.cols)
          /\ ToSet(view_cols) \subseteq ToSet(X.cols))
    THEN KeyError
    ELSE [ok |-> TRUE,
          X_view |-> Rename(Drop(X, profit_cols), view_cols, profit_cols),
          X_profit |-> Drop(X, view_cols)]

\* The caller splits the tables the builder returned with the lists it
\* returned (ProfitsPredictor(encoder, view_cols, profit_cols).fit(X_train, ..)).
SplitViewProfit ==
    /\ pc = "get_profit_10_days_data"
    /\ ret.has_cols
    /\ \E X \in {ret.X_train, ret.X_test} :
          split' = [X |-> X,
                    res |-> split_view_profit(X, ret.view_cols, ret.profit_cols)]
    /\ pc' = "split_view_profit"
    /\ UNCHANGED <<data, data0, ret, predictor, nfit, call>>

---------------------------------------------------------------------------
(* BasicEncoderProfits, lines 58-86, over sklearn's LabelEncoder *)

NotFittedError == [ok |-> FALSE, err |-> "NotFittedError"]

ValueError == [ok |-> FALSE, err |-> "ValueError"]

\* pp.BasicEncoder encodes the offer types with a LabelEncoder of its own.
BasicEncoderFeatures == <<"offer_type">>

\* BasicEncoderProfits(custom_features): one unfitted LabelEncoder per feature
NewEncoder(custom_features) ==
    [custom_features |-> custom_features,
     fitted |-> FALSE,
     classes |-> [f \in ToSet(BasicEncoderFeatures \o custom_features) |-> <<>>]]

Column(X, f) == [i \in DOMAIN X.rows |-> X.rows[i][f]]

\* LabelEncoder.fit: classes_ = the sorted distinct values
LabelEncoderFit(values) == Sorted(values)

\* LabelEncoder.transform of one value: its position in classes_ (from 0)
LabelEncoderTransform(classes, v) == IndexOf(classes, v) - 1

\* fit: every LabelEncoder is fitted again, on the column of this X
EncoderFit(enc, X) ==
    [enc EXCEPT !.fitted = TRUE,
                !.classes = [f \in DOMAIN enc.classes |->
                               LabelEncoderFit(Column(X, f))]]

\* transform: NotFittedError before any fit, ValueError on a label that the
\* last fit did not see
EncoderTransform(enc, X) ==
    IF ~ enc.fitted THEN NotFittedError
    ELSE IF \E f \in DOMAIN enc.classes :
               ~ (ToSet(Column(X, f)) \subseteq ToSet(enc.classes[f]))
    THEN ValueError
    ELSE [ok |-> TRUE,
          X |-> [cols |-> X.cols,
                 rows |-> [i \in DOMAIN X.rows |->
                             [c \in ToSet(X.cols) |->
                                IF c \in DOMAIN enc.classes
                                THEN LabelEncoderTransform(enc.classes[c], X.rows[i][c])
                                ELSE X.rows[i][c]]]]]

---------------------------------------------------------------------------
(* The two pipelines of ProfitsPredictor, lines 275-286.  The gradient-     *)
(* boosting estimators are stood for by a linear scorer of the encoded     *)
(* features: bias + w * (sum of the row's features).  A probability is     *)
(* kept as a numerator over ProbaScale.                                     *)

ProbaScale == 2

RECURSIVE Sum(_)
Sum(xs) == IF xs = <<>> THEN 0 ELSE Head(xs) + Sum(Tail(xs))

SumRow(r, cols) == Sum([k \in DOMAIN cols |-> r[cols[k]]])

Unfitted == [fitted |-> FALSE, gen |-> 0, classes |-> <<>>, bias |-> 0, w |-> 0]

\* estimator.fit(Xt, y): the estimator keeps what it learnt; classes records
\* the encoding its training features were in.
EstimatorFit(gen, enc, bias, w) ==
    [fitted |-> TRUE, gen |-> gen, classes |-> enc.classes, bias |-> bias, w |-> w]

\* XGBClassifier.predict_proba(Xt)[:, 1], numerators over ProbaScale
PredictProba(est, Xt) ==
    [i \in DOMAIN Xt.rows |->
        (est.bias + est.w * SumRow(Xt.rows[i], Xt.cols)) % (ProbaScale + 1)]

\* XGBRegressor.predict(Xt)
PredictValue(est, Xt) ==
    [i \in DOMAIN Xt.rows |-> est.bias + est.w * SumRow(Xt.rows[i], Xt.cols)]

\* Pipeline.predict / predict_proba: encoder.transform, then the estimator
\* (the tables of the model hold no missing value for the imputer to fill)
PipelinePredict(enc, est, X, proba) ==
    LET t == EncoderTransform(enc, X)
    IN  IF ~ t.ok THEN t
        ELSE IF ~ est.fitted THEN NotFittedError
        ELSE [ok |-> TRUE,
              val |-> IF proba THEN PredictProba(est, t.X) ELSE PredictValue(est, t.X)]

---------------------------------------------------------------------------
(* ProfitsPredictor, lines 260-319 *)

\* __init__: both pipelines hold the one encoder object
NewPredictor(encoder, view_cols, profit_cols) ==
    [view_cols |-> view_cols,
     profit_cols |-> profit_cols,
     encoder |-> encoder,
     views_model |-> Unfitted,
     profits_model |-> Unfitted]

\* fit: y_views = y.iloc[:, 0], y_profits = y.iloc[:, 1]; the views pipeline
\* is fitted (encoder.fit on X_views, then its estimator), then the profits
\* pipeline (the same encoder fitted on X_profits, then its estimator).  An
\* estimator that rejects its target raises, and fit stops there.
\* learn: what the two estimators make of their training sets.
fit(self, X, y, gen, learn) ==
    LET sp == split_view_profit(X, self.view_cols, self.profit_cols)
    IN  IF Len(y.cols) < 2 THEN [self |-> self, out |-> [ok |-> FALSE, err |-> "IndexError"]]
        ELSE IF ~ sp.ok THEN [self |-> self, out |-> sp]
        ELSE
        LET e1 == EncoderFit(self.encoder, sp.X_view)
            e2 == EncoderFit(e1, sp.X_profit)
            y_views == Column(y, y.cols[1])
            y_profits == Column(y, y.cols[2])
            vm == EstimatorFit(gen, e1, Sum(y_views), learn.wv)
            pm == EstimatorFit(gen, e2, Sum(y_profits), learn.wp)
        IN  IF ~ learn.views_ok
            THEN [self |-> [self EXCEPT !.encoder = e1], out |-> ValueError]
            ELSE IF ~ learn.profits_ok
            THEN [self |-> [self EXCEPT !.encoder = e2, !.views_model = vm],
                  out |-> ValueError]
            ELSE [self |-> [self EXCEPT !.encoder = e2, !.views_model = vm,
                                        !.profits_model = pm],
                  out |-> [ok |-> TRUE]]

\* predict: vis_probas * profits_pred, in units of 1 / ProbaScale
predict(self, X) ==
    LET sp == split_view_profit(X, self.view_cols, self.profit_cols)
    IN  IF ~ sp.ok THEN sp
        ELSE
        LET vis_probas == PipelinePredict(self.encoder, self.views_model, sp.X_view, TRUE)
            profits_pred == PipelinePredict(self.encoder, self.profits_model, sp.X_profit, FALSE)
        IN  IF ~ vis_probas.ok THEN vis_probas
            ELSE IF ~ profits_pred.ok THEN profits_pred
            ELSE [ok |-> TRUE,
                  val |-> [i \in DOMAIN X.rows |->
                             vis_probas.val[i] * profits_pred.val[i]]]

\* predict_profit_alone multiplying by the view probability, as predict does
predict_profit_alone_with_view(self, X) == predict(self, X)

\* predict_profit_alone: the profits pipeline alone (the probability is 1,
\* that is ProbaScale over ProbaScale)
predict_profit_alone(self, X) ==
    LET sp == split_view_profit(X, self.view_cols, self.profit_cols)
    IN  IF ~ sp.ok THEN sp
        ELSE
        LET profits_pred == PipelinePredict(self.encoder, self.profits_model, sp.X_profit, FALSE)
        IN  IF ~ profits_pred.ok THEN profits_pred
            ELSE [ok |-> TRUE,
                  val |-> [i \in DOMAIN X.rows |-> ProbaScale * profits_pred.val[i]]]

-----------

NoRet == [none |-> TRUE]

InitBuild ==
    /\ pc = "start"
    /\ data \in RawTables
    /\ data0 = data
    /\ ret = NoRet
    /\ split = NoRet
    /\ predictor = NoRet
    /\ nfit = 0
    /\ call = NoRet

NextBuild == FillNullOffer \/ GetProfit10DaysData \/ SplitViewProfit

SpecBuild == InitBuild /\ [][NextBuild]_vars

-------------------------------------------------------------------------------------------------------------------------------------------
(* The composite estimator in use: built from what the dataset builder     *)
(* returns with drop_offer_id=False, then fitted and asked to predict.     *)

Built(raw) ==
    get_profit_10_days_data(raw, TRUE, TRUE, FALSE, TRUE, <<"viewed", "profit_10_days">>)

TrainSets == {Built(raw) : raw \in RawTablesAt({0}, MaxTrainRows)}

PredictTables == {Built(raw).X_test : raw \in RawTablesAt({408}, MaxPredictRows)}

\* What the estimators make of a training set: whether each accepts its
\* target column, and the slope it learns.
Learn ==
    {l \in [views_ok : BOOLEAN, profits_ok : BOOLEAN, wv : {0, 1}, wp : {0, 1}] :
        /\ ~ l.views_ok => (l.profits_ok /\ l.wv = 0 /\ l.wp = 0)   \* nothing learnt
        /\ ~ l.profits_ok => l.wp = 0}

Fit ==
    /\ nfit < MaxFits
    /\ \E b \in TrainSets, learn \in Learn :
          LET r == fit(predictor, b.X_train, b.y_train, nfit + 1, learn)
          IN  /\ predictor' = r.self
              /\ call' = [op |-> "fit", X |-> b.X_train, out |-> r.out]
    /\ nfit' = nfit + 1
    /\ UNCHANGED <<pc, data, data0, ret, split>>

Predict ==
    /\ \E X \in PredictTables :
          call' = [op |-> "predict", X |-> X, out |-> predict(predictor, X)]
    /\ UNCHANGED <<pc, data, data0, ret, split, predictor, nfit>>

PredictProfitAlone ==
    /\ \E X \in PredictTables :
          call' = [op |-> "predict_profit_alone", X |-> X,
                   out |-> predict_profit_alone(predictor, X)]
    /\ UNCHANGED <<pc, data, data0, ret, split, predictor, nfit>>

InitModel ==
    /\ pc = "model"
    /\ data = NoRet /\ data0 = NoRet /\ ret = NoRet /\ split = NoRet
    /\ \E b \in TrainSets :
          predictor = NewPredictor(NewEncoder(b.custom_features), b.view_cols, b.profit_cols)
    /\ nfit = 0
    /\ call = [op |-> "__init__"]

NextModel == Fit \/ Predict \/ PredictProfitAlone

SpecModel == InitModel /\ [][NextModel]_vars

---------------------------------------------------------------------------
(* predict_profit_with_offer, lines 220-236 *)

\* Series.rename(index=to): to is the dict, a label outside it is kept
Renamed(to, l) == IF l \in DOMAIN to THEN to[l] ELSE l

RenameIndex(sr, to) ==
    [idx |-> [k \in DOMAIN sr.idx |-> Renamed(to, sr.idx[k])],
     val |-> [l \in {Renamed(to, sr.idx[k]) : k \in DOMAIN sr.idx} |->
                sr.val[sr.idx[CHOOSE k \in DOMAIN sr.idx : Renamed(to, sr.idx[k]) = l]]]]

\* Series.drop(label)
DropIndex(sr, label) ==
    LET keep == SelectSeq(sr.idx, LAMBDA l : l # label)
    IN  [idx |-> keep, val |-> [l \in ToSet(keep) |-> sr.val[l]]]

\* Series.sort_index()
SortIndex(sr) == [idx |-> Sorted(sr.idx), val |-> sr.val]

\* Series.values: the values in the order of the index
Values(sr) == [k \in DOMAIN sr.idx |-> sr.val[sr.idx[k]]]

\* samples.loc[:, cols] = np.repeat(values.reshape(1, -1), n, axis=0):
\* the k-th value goes to the k-th column, in every row
Broadcast(samples, cols, values) ==
    [cols |-> samples.cols,
     rows |-> [i \in DOMAIN samples.rows |->
                 [c \in ToSet(samples.cols) |->
                    IF c \in ToSet(cols) THEN values[IndexOf(cols, c)]
                    ELSE samples.rows[i][c]]]]

\* std_offer, line 223-226
StdOffer(offer, drop_offer_id) ==
    IF drop_offer_id
    THEN RenameIndex(DropIndex(offer, "id"), [l \in {"reward"} |-> "reward_t"])
    ELSE SortIndex(RenameIndex(offer,
                     [l \in {"reward", "id"} |->
                        IF l = "reward" THEN "reward_t" ELSE "offer_id"]))

\* lines 231-234: the sentinel is scored on its profit alone
Score(m, samples, offer) ==
    IF offer.val["offer_type"] = "no_offer"
    THEN [samples |-> samples, method |-> "predict_profit_alone",
          y_pred |-> predict_profit_alone(m, samples)]
    ELSE [samples |-> samples, method |-> "predict",
          y_pred |-> predict(m, samples)]

\* predict_profit_with_offer without line 228 (the view block is left as it was)
predict_profit_with_offer_profit_block_only(m, X, offer, drop_offer_id) ==
    LET std_offer == StdOffer(offer, drop_offer_id)
    IN  IF Len(Values(std_offer)) # Len(Sorted(PROFIT_COLS))
        THEN [samples |-> X, method |-> "none", y_pred |-> ValueError]
        ELSE Score(m, Broadcast(X, Sorted(PROFIT_COLS), Values(std_offer)), offer)

predict_profit_with_offer(m, X, offer, drop_offer_id) ==
    LET samples == X
        std_offer == StdOffer(offer, drop_offer_id)
        view_offer == RenameIndex(std_offer,
                         [old \in ToSet(std_offer.idx) |-> old \o "_viewcol"])
    IN  \* a block of n x k values does not fit k' # k columns
        IF \/ Len(Values(view_offer)) # Len(Sorted(VIEW_COLS))
           \/ Len(Values(std_offer)) # Len(Sorted(PROFIT_COLS))
        THEN [samples |-> samples, method |-> "none", y_pred |-> ValueError]
        ELSE
        LET s1 == Broadcast(samples, Sorted(VIEW_COLS), Values(view_offer))
            s2 == Broadcast(s1, Sorted(PROFIT_COLS), Values(std_offer))
        IN  Score(m, s2, offer)

---------------------------------------------------------------------------
(* choose_offer, lines 239-257 *)

\* pd.Series([0, 0, 'no_offer', 'no_offer', 0, 0, 0, 0, 0],
\*           index=complete_portfolio.columns)
null_offer ==
    LET values == <<0, 0, "no_offer", "no_offer", 0, 0, 0, 0, 0>>
    IN  [idx |-> PORTFOLIO_COLS,
         val |-> [l \in ToSet(PORTFOLIO_COLS) |-> values[IndexOf(PORTFOLIO_COLS, l)]]]

\* an arg-max that keeps the last maximum of the row
idxmax_last(scores) ==
    CHOOSE k \in DOMAIN scores :
        /\ \A j \in DOMAIN scores : scores[j] <= scores[k]
        /\ \A j \in DOMAIN scores : j > k => scores[j] < scores[k]

\* DataFrame.idxmax(axis=1) on one row: the position of the first maximum
idxmax(scores) ==
    CHOOSE k \in DOMAIN scores :
        /\ \A j \in DOMAIN scores : scores[j] <= scores[k]
        /\ \A j \in DOMAIN scores : j < k => scores[j] < scores[k]

choose_offer(m, X, portfolio, add_null_offer) ==
    LET complete_portfolio ==
            IF add_null_offer THEN portfolio \o <<null_offer>> ELSE portfolio
        scored == [k \in DOMAIN complete_portfolio |->
                     predict_profit_with_offer(m, X, complete_portfolio[k], FALSE)]
        columns == [k \in DOMAIN complete_portfolio |-> complete_portfolio[k].val["id"]]
    IN  IF \E k \in DOMAIN scored : ~ scored[k].y_pred.ok
        THEN [ok |-> FALSE,
              err |-> scored[CHOOSE k \in DOMAIN scored :
                               /\ ~ scored[k].y_pred.ok
                               /\ \A j \in 1..(k - 1) : scored[j].y_pred.ok].y_pred.err,
              scored |-> scored]
        ELSE
        LET res == [i \in DOMAIN X.rows |->
                      [k \in DOMAIN scored |-> scored[k].y_pred.val[i]]]
        IN  [ok |-> TRUE,
             chosen |-> [i \in DOMAIN X.rows |-> columns[idxmax(res[i])]],
             columns |-> columns,
             res |-> res,
             scored |-> scored]

\* The catalogs handed to choose_offer: offers of the portfolio, each once.
Portfolios ==
    {p \in UNION {[1..n -> ToSet(RealOffers)] : n \in 1..MaxOffers} :
        \A j, k \in DOMAIN p : j # k => p[j] # p[k]}

\* A call on a fitted predictor changes nothing of it: each behaviour of
\* SpecUse makes one call.
ChooseOffer ==
    /\ pc = "fitted"
    /\ pc' = "called"
    /\ \E X \in PredictTables, portfolio \in Portfolios, add_null_offer \in BOOLEAN :
          call' = [op |-> "choose_offer", X |-> X, portfolio |-> portfolio,
                   add_null_offer |-> add_null_offer,
                   out |-> choose_offer(predictor, X, portfolio, add_null_offer)]
    /\ UNCHANGED <<data, data0, ret, split, predictor, nfit>>

PredictProfitWithOffer ==
    /\ pc = "fitted"
    /\ pc' = "called"
    /\ \E X \in PredictTables, offer \in ToSet(RealOffers) \cup {null_offer},
          drop_offer_id \in BOOLEAN :
          call' = [op |-> "predict_profit_with_offer", X |-> X, offer |-> offer,
                   drop_offer_id |-> drop_offer_id,
                   out |-> predict_profit_with_offer(predictor, X, offer, drop_offer_id)]
    /\ UNCHANGED <<data, data0, ret, split, predictor, nfit>>

UsePredict ==
    /\ pc = "fitted"
    /\ pc' = "called"
    /\ \E X \in PredictTables :
          call' = [op |-> "predict", X |-> X, out |-> predict(predictor, X)]
    /\ UNCHANGED <<data, data0, ret, split, predictor, nfit>>

UsePredictProfitAlone ==
    /\ pc = "fitted"
    /\ pc' = "called"
    /\ \E X \in PredictTables :
          call' = [op |-> "predict_profit_alone", X |-> X,
                   out |-> predict_profit_alone(predictor, X)]
    /\ UNCHANGED <<data, data0, ret, split, predictor, nfit>>

\* A training set in which every offer of the portfolio was viewed once and
\* missed once.
FullTrainSet ==
    Built([cols |-> RAW_COLS,
           rows |-> [n \in 1..(2 * Len(RealOffers)) |->
                       RawRow(1, 0, RealOffers[((n - 1) \div 2) + 1], n % 2, 5)]])

InitUse ==
    /\ pc = "fitted"
    /\ data = NoRet /\ data0 = NoRet /\ ret = NoRet /\ split = NoRet
    /\ \E learn \in Learn :
          /\ learn.views_ok /\ learn.profits_ok
          /\ predictor =
                fit(NewPredictor(NewEncoder(FullTrainSet.custom_features),
                                 FullTrainSet.view_cols, FullTrainSet.profit_cols),
                    FullTrainSet.X_train, FullTrainSet.y_train, 1, learn).self
    /\ nfit = 1
    /\ call = [op |-> "fit"]

NextUse == UsePredict \/ UsePredictProfitAlone \/ PredictProfitWithOffer \/ ChooseOffer

SpecUse == InitUse /\ [][NextUse]_vars

-----------
(* Claims on the null-offer filler and the dataset builder *)

Rows(df) == DOMAIN df.rows

OtherCols(df) == ToSet(df.cols) \ (ToSet(PROFIT_COLS) \cup ToSet(VIEW_COLS))

\* C1: after fill_null_offer, every row with viewed == 0 has offer_id and
\* offer_type 'no_offer', every offer-numeric column 0, and every view-block
\* column equal to what the corresponding profit-block column held before.
C1_NullRows ==
    pc = "fill_null_offer" =>
        \A i \in Rows(data) :
            data.rows[i]["viewed"] = 0 =>
                /\ data.rows[i]["offer_id"] = "no_offer"
                /\ data.rows[i]["offer_type"] = "no_offer"
                /\ \A k \in DOMAIN Z_COLS : data.rows[i][Z_COLS[k]] = 0
                /\ \A k \in DOMAIN PROFIT_COLS :
                      data.rows[i][ViewName(PROFIT_COLS[k])]
                          = data0.rows[i][PROFIT_COLS[k]]

C1_Witness ==
    /\ pc = "fill_null_offer"
    /\ \E i \in Rows(data) :
          /\ data.rows[i]["viewed"] = 0
          /\ data0.rows[i]["offer_id"] = "ae26"
          /\ data.rows[i]["reward_t_viewcol"] = 10
          /\ data.rows[i]["reward_t"] = 0

\* C10: fill_null_offer leaves the profit block of every row with viewed != 0
\* as it was, sets each of its view-block columns to the profit-block column,
\* and changes no column outside the two blocks in any row.
C10_Frame ==
    pc = "fill_null_offer" =>
        /\ Len(data.rows) = Len(data0.rows)
        /\ \A i \in Rows(data) :
              /\ \A c \in OtherCols(data0) : data.rows[i][c] = data0.rows[i][c]
              /\ OtherCols(data) = OtherCols(data0)
              /\ data.rows[i]["viewed"] # 0 =>
                    \A k \in DOMAIN PROFIT_COLS :
                        /\ data.rows[i][PROFIT_COLS[k]] = data0.rows[i][PROFIT_COLS[k]]
                        /\ data.rows[i][VIEW_COLS[k]] = data.rows[i][PROFIT_COLS[k]]

C10_Witness ==
    /\ pc = "fill_null_offer"
    /\ Len(data.rows) = 2
    /\ data.rows[1]["viewed"] = 1
    /\ data.rows[1]["offer_id"] = "2906"
    /\ data.rows[1]["offer_id_viewcol"] = "2906"
    /\ data.rows[2]["viewed"] = 0

\* C7: with fill_null=True, for every setting of drop_offer_id, anon_person
\* and drop_time, every name of the returned view_cols and profit_cols is a
\* column of X_train and X_test, and the i-th view-block name is the i-th
\* profit-block name with the view label added.
C7_BlocksAligned ==
    (pc = "get_profit_10_days_data" /\ ret.args.fill_null) =>
        /\ Len(ret.view_cols) = Len(ret.profit_cols)
        /\ \A k \in DOMAIN ret.profit_cols :
              /\ ret.view_cols[k] = ViewName(ret.profit_cols[k])
              /\ ret.view_cols[k] \in ToSet(ret.X_train.cols) \cap ToSet(ret.X_test.cols)
              /\ ret.profit_cols[k] \in ToSet(ret.X_train.cols) \cap ToSet(ret.X_test.cols)

\* C6 as stated: X_view, the profit block dropped and the view block renamed,
\* has exactly the profit-block's column set and no other column; X_profit
\* is X with the view-block columns dropped.
C6_ExactlyProfitBlock ==
    (pc = "split_view_profit" /\ split.res.ok) =>
        /\ ToSet(split.res.X_view.cols) = ToSet(ret.profit_cols)
        /\ split.res.X_profit = Drop(split.X, ret.view_cols)

\* C6 amended: X_view has exactly the columns of X_profit (the columns of X
\* outside the view block, the profit-block names among them), carries under
\* each profit-block name the value of the corresponding view-block column
\* and under every other name the value of X; X_profit is X without the
\* view block.
C6_SameColumnSet ==
    (pc = "split_view_profit" /\ split.res.ok) =>
        LET X == split.X
            Xv == split.res.X_view
            Xp == split.res.X_profit
        IN  /\ ToSet(Xv.cols) = ToSet(X.cols) \ ToSet(ret.view_cols)
            /\ ToSet(Xv.cols) = ToSet(Xp.cols)
            /\ ToSet(ret.profit_cols) \subseteq ToSet(Xv.cols)
            /\ Len(Xv.rows) = Len(X.rows) /\ Len(Xp.rows) = Len(X.rows)
            /\ \A i \in Rows(X) :
                  /\ \A k \in DOMAIN ret.profit_cols :
                        Xv.rows[i][ret.profit_cols[k]] = X.rows[i][ret.view_cols[k]]
                  /\ \A c \in OtherCols(X) : Xv.rows[i][c] = X.rows[i][c]
                  /\ \A c \in ToSet(Xp.cols) : Xp.rows[i][c] = X.rows[i][c]

C6_Witness ==
    /\ pc = "split_view_profit"
    /\ split.res.ok
    /\ Len(split.X.rows) = 1
    /\ split.X.rows[1]["offer_id"] = "no_offer"
    /\ split.res.X_view.rows[1]["offer_id"] = "ae26"
    /\ split.res.X_profit.rows[1]["offer_id"] = "no_offer"
    /\ "age" \in ToSet(split.res.X_view.cols)

---------------------------------------------------------------------------
(* Claims on the composite estimator *)

Fitted(est) == est.fitted

\* C8: after fit, the mapping the shared encoder applies to a category at
\* predict time is the mapping that was applied to it when the view
\* classifier was trained, and likewise for the profit regressor.
C8_SameMapping ==
    (/\ pc = "model"
     /\ Fitted(predictor.views_model) /\ Fitted(predictor.profits_model)
     /\ predictor.views_model.gen = predictor.profits_model.gen) =>
        \A f \in DOMAIN predictor.encoder.classes :
            \A est \in {predictor.views_model, predictor.profits_model} :
                \A c \in ToSet(est.classes[f]) :
                    /\ c \in ToSet(predictor.encoder.classes[f])
                    /\ LabelEncoderTransform(predictor.encoder.classes[f], c)
                          = LabelEncoderTransform(est.classes[f], c)

\* C9: the predictor is either not fitted (neither sub-model fitted) or
\* fitted (both fitted, by the same call of fit), whatever calls were made
\* and however they ended; predict and predict_profit_alone on a predictor
\* that is not fitted end in a not-fitted error and return no prediction.
C9_TwoStates ==
    pc = "model" =>
        /\ Fitted(predictor.views_model) = Fitted(predictor.profits_model)
        /\ predictor.views_model.gen = predictor.profits_model.gen
        /\ (/\ call.op \in {"predict", "predict_profit_alone"}
            /\ ~ Fitted(predictor.views_model)
            /\ ~ Fitted(predictor.profits_model)) => call.out = NotFittedError

---------------------------------------------------------------------------
(* Claims on a fitted predictor and the offer chooser *)

\* the offer's attribute that a profit-block column holds
Attr(p) == CASE p = "reward_t" -> "reward" [] p = "offer_id" -> "id" [] OTHER -> p

CompletePortfolio ==
    IF call.add_null_offer THEN call.portfolio \o <<null_offer>> ELSE call.portfolio

\* The tables that agree with X outside the view block: every row's view
\* block holds the attributes of some offer or of the null offer.
ViewVariants(X) ==
    {[cols |-> X.cols,
      rows |-> [i \in DOMAIN X.rows |->
                  [c \in ToSet(X.cols) |->
                     IF c \in ToSet(VIEW_COLS)
                     THEN o[i].val[Attr(PROFIT_COLS[IndexOf(VIEW_COLS, c)])]
                     ELSE X.rows[i][c]]]] :
        o \in [DOMAIN X.rows -> ToSet(RealOffers) \cup {null_offer}]}

\* C2: every candidate c is scored on a copy of the customer rows in which
\* each profit-block and each view-block column holds c's attribute of that
\* name (reward as reward_t, id as offer_id) and every other column is
\* unchanged; the score is predict_profit_alone's exactly when c is the
\* 'no_offer' sentinel and predict's for every other candidate.
C2_ScoredSamples ==
    call.op = "choose_offer" =>
        /\ Len(call.out.scored) = Len(CompletePortfolio)
        /\ \A k \in DOMAIN CompletePortfolio :
              LET c == CompletePortfolio[k]
                  e == call.out.scored[k]
              IN  /\ e.samples.cols = call.X.cols
                  /\ Len(e.samples.rows) = Len(call.X.rows)
                  /\ \A i \in Rows(call.X) :
                        /\ \A n \in DOMAIN PROFIT_COLS :
                              /\ e.samples.rows[i][PROFIT_COLS[n]]
                                    = c.val[Attr(PROFIT_COLS[n])]
                              /\ e.samples.rows[i][VIEW_COLS[n]]
                                    = c.val[Attr(PROFIT_COLS[n])]
                        /\ \A o \in OtherCols(call.X) :
                              e.samples.rows[i][o] = call.X.rows[i][o]
                  /\ (e.method = "predict_profit_alone") <=> (c.val["id"] = "no_offer")
                  /\ (e.method = "predict") <=> (c.val["id"] # "no_offer")
                  /\ e.y_pred = IF c.val["id"] = "no_offer"
                                THEN [ok |-> TRUE,
                                      val |-> [i \in Rows(call.X) |-> ProbaScale *
                                         PipelinePredict(predictor.encoder, predictor.profits_model,
                                            Drop(e.samples, VIEW_COLS), FALSE).val[i]]]
                                ELSE [ok |-> TRUE,
                                      val |-> [i \in Rows(call.X) |->
                                         PipelinePredict(predictor.encoder, predictor.views_model,
                                            Rename(Drop(e.samples, PROFIT_COLS), VIEW_COLS, PROFIT_COLS),
                                            TRUE).val[i]
                                         * PipelinePredict(predictor.encoder, predictor.profits_model,
                                            Drop(e.samples, VIEW_COLS), FALSE).val[i]]]

C2_Witness ==
    /\ call.op = "choose_offer"
    /\ call.out.ok
    /\ call.add_null_offer
    /\ Len(call.portfolio) = 2
    /\ call.X.rows[1]["offer_id"] = "no_offer"
    /\ call.X.rows[1]["offer_id_viewcol"] = "ae26"
    /\ call.portfolio[1].val["id"] = "3f20"
    /\ call.out.scored[1].samples.rows[1]["offer_id_viewcol"] = "3f20"
    /\ call.out.scored[1].samples.rows[1]["duration"] = 4
    /\ call.out.scored[1].method = "predict"
    /\ call.out.scored[3].method = "predict_profit_alone"
    /\ call.out.scored[1].y_pred.val[1] # 0

IsMax(scores, k) == \A j \in DOMAIN scores : scores[j] <= scores[k]

\* C3: the score table has one row per customer row and one column per
\* candidate (the catalog's offers in catalog order, then 'no_offer' when
\* add_null_offer is true); the chosen offer of a row is a candidate whose
\* score is maximal in the row, the first such in column order.
C3_ArgMaxFirst ==
    (call.op = "choose_offer" /\ call.out.ok) =>
        /\ call.out.columns = [k \in DOMAIN CompletePortfolio |-> CompletePortfolio[k].val["id"]]
        /\ Len(call.out.columns) = Len(call.portfolio) + (IF call.add_null_offer THEN 1 ELSE 0)
        /\ call.add_null_offer => call.out.columns[Len(call.out.columns)] = "no_offer"
        /\ DOMAIN call.out.res = Rows(call.X)
        /\ DOMAIN call.out.chosen = Rows(call.X)
        /\ \A i \in Rows(call.X) :
              /\ Len(call.out.res[i]) = Len(call.out.columns)
              /\ \A k \in DOMAIN call.out.columns :
                    call.out.res[i][k] = call.out.scored[k].y_pred.val[i]
              /\ \E k \in DOMAIN call.out.columns :
                    /\ call.out.chosen[i] = call.out.columns[k]
                    /\ IsMax(call.out.res[i], k)
                    /\ \A j \in 1..(k - 1) : ~ IsMax(call.out.res[i], j)

C3_Witness ==
    /\ call.op = "choose_offer"
    /\ call.out.ok
    /\ Len(call.out.columns) = 3
    /\ \E i \in Rows(call.X) :
          /\ call.out.res[i][2] = call.out.res[i][3]
          /\ call.out.res[i][1] < call.out.res[i][2]
          /\ call.out.chosen[i] = call.out.columns[2]

SingleOfferWithNull ==
    /\ call.op = "choose_offer"
    /\ call.out.ok
    /\ Len(call.portfolio) = 1
    /\ call.add_null_offer

\* C4 as stated: with a single real offer and add_null_offer=True the table
\* has the 2 columns (the offer's identity, 'no_offer') and the chosen offer
\* is the column with the strictly greater score, 'no_offer' on a tie.
C4_NullOnTie ==
    SingleOfferWithNull =>
        /\ call.out.columns = <<call.portfolio[1].val["id"], "no_offer">>
        /\ \A i \in Rows(call.X) :
              call.out.chosen[i] =
                  IF call.out.res[i][1] > call.out.res[i][2]
                  THEN call.portfolio[1].val["id"] ELSE "no_offer"

\* C4 amended: with a single real offer and add_null_offer=True the table
\* has the 2 columns (the offer's identity, 'no_offer') and the chosen offer
\* is the column with the strictly greater score, the real offer (the first
\* column) on a tie.
C4_OfferOnTie ==
    SingleOfferWithNull =>
        /\ call.out.columns = <<call.portfolio[1].val["id"], "no_offer">>
        /\ \A i \in Rows(call.X) :
              /\ Len(call.out.res[i]) = 2
              /\ call.out.chosen[i] =
                    IF call.out.res[i][2] > call.out.res[i][1]
                    THEN "no_offer" ELSE call.portfolio[1].val["id"]

C4_Witness ==
    /\ SingleOfferWithNull
    /\ \E i \in Rows(call.X) :
          /\ call.out.res[i][1] = call.out.res[i][2]
          /\ call.out.chosen[i] = call.portfolio[1].val["id"]

\* C5: on a fitted predictor, predict_profit_alone returns the same output
\* for any two tables that agree on every column outside the view block.
C5_ViewBlockIgnored ==
    (call.op = "predict_profit_alone" /\ Fitted(predictor.profits_model)) =>
        \A X2 \in ViewVariants(call.X) :
            predict_profit_alone(predictor, X2) = call.out

C5_Witness ==
    /\ pc = "called"
    /\ call.op = "predict_profit_alone"
    /\ call.out.ok
    /\ \E X2 \in ViewVariants(call.X) :
          /\ X2 # call.X
          /\ predict(predictor, X2).ok
          /\ predict(predictor, call.X).ok
          /\ predict(predictor, X2) # predict(predictor, call.X)

====
